---- MODULE Spec2Model ----
(***************************************************************************)
(* The FreeCAD MCP addon's RPC server: the request/response queue pair,    *)
(* the GUI-thread pump (process_gui_tasks), the FreeCADRPC bridge methods  *)
(* running on the XML-RPC serving thread, the capability kernel they       *)
(* reach, and the start/stop/toggle/_init_gui lifecycle.                   *)
(***************************************************************************)
EXTENDS Integers, Sequences, FiniteSets, TLC

\* Number of remote requests the clients issue in one run.
MaxCalls == 2
\* Number of times start_rpc_server gets past its "already running" guard.
MaxStarts == 2

None == "None"

\* The one document name and the one object name the requests use.
DocName == "Doc"
ObjName == "Obj"
\* A create_document argument that FreeCAD.newDocument rejects (XML-RPC
\* carries ints, lists and structs as readily as strings).
NotAString == "<int>"

\* The registered methods of FreeCADRPC that the requests draw from.
TrueMethods == {"create_document", "create_object", "delete_object"}
DictMethods == {"create_sketch"}
DirectMethods == {"get_objects", "get_object", "list_documents"}
Methods ==
  TrueMethods \cup DictMethods \cup DirectMethods
    \cup {"ping", "execute_code", "get_active_screenshot"}

\* A request: the method and, for create_document, the name argument.
Requests ==
  {[m |-> m, arg |-> DocName] : m \in Methods}
    \cup {[m |-> "create_document", arg |-> NotAString]}

VARIABLES
  gui,                  \* what the GUI thread is doing
  pumpTimers,           \* pending QTimer.singleShot(500, process_gui_tasks)
  initTimer,            \* pending QTimer.singleShot(2000, _init_gui)
  rpc_request_queue,    \* Work Items, oldest first
  rpc_response_queue,   \* results, oldest first
  rpc_server_instance,  \* None or the id of the current server object
  rpc_server_thread,    \* None or the id of the current serving thread
  servers,              \* live server objects (bound endpoints): [id, host]
  threads,              \* ids of the serving threads still inside server_loop
  shutdownReq,          \* ids of the servers whose shutdown() was called
  nStarts,              \* server objects constructed so far
  settings,             \* the persisted settings record
  calls,                \* the remote requests, by number
  nPut,                 \* Work Items put on the request queue so far
  nTake,                \* values taken from the result queue so far
  docs, objs,           \* the kernel: open documents, objects of DocName
  executed,             \* history: the Work Items executed so far
  act,                  \* history: the running pump activation
  ev,                   \* history: what the latest step did (see NoEvent)
  _rpc_host,            \* MCP side: the host the tools connect to
  _freecad_connection,  \* MCP side: None or the cached FreeCADConnection
  endpoint,             \* what answers on port 9875 of each host
  tool_out,             \* history: what the latest tool call gave its caller
  prop_run,             \* history: the latest batch of property assignments
  file,                 \* the settings file on disk
  lastSaved,            \* history: the record of the latest completed save
  settings_out,         \* history: what the latest settings operation did
  ip_run,               \* history: the latest validation of an allow-list
  allowed_ips           \* the allowed_ips setting in the settings file

\* The variables of the FreeCAD addon's RPC server.
serverVars ==
  << gui, pumpTimers, initTimer, rpc_request_queue, rpc_response_queue,
     rpc_server_instance, rpc_server_thread, servers, threads, shutdownReq,
     nStarts, settings, calls, nPut, nTake, docs, objs, executed, act,
     ev >>

\* The variables of the MCP server process and of its network.
clientVars == << _rpc_host, _freecad_connection, endpoint, tool_out >>

\* The variables of the property assignments looked at on their own.
propVars == << prop_run >>

\* The variables of settings persistence looked at on its own.
diskVars == << file, lastSaved, settings_out >>

\* The variables of the allow-list looked at on its own.
accessVars == << ip_run, allowed_ips >>

vars == << serverVars, clientVars, propVars, diskVars, accessVars >>
nonServerVars == << clientVars, propVars, diskVars, accessVars >>
nonClientVars == << serverVars, propVars, diskVars, accessVars >>
nonPropVars == << serverVars, clientVars, diskVars, accessVars >>
nonDiskVars == << serverVars, clientVars, propVars, accessVars >>
nonAccessVars == << serverVars, clientVars, propVars, diskVars >>

CallIds == 1 .. MaxCalls

----------------------------------------------------------------------------
\* Settings persistence

_DEFAULT_SETTINGS ==
  [remote_enabled |-> FALSE, auto_start_server |-> TRUE,
   startup_remote_enabled |-> FALSE]

SettingsRecords ==
  [remote_enabled : BOOLEAN, auto_start_server : BOOLEAN,
   startup_remote_enabled : BOOLEAN]

----------------------------------------------------------------------------
\* The capability kernel

\* FreeCAD.getDocument(name): the document, or for an unknown name either
\* NameError (what FreeCADRPC.get_objects catches) or a falsy value (what
\* the *_gui operations test for).
GetDocument(name) ==
  IF name \in docs THEN {"doc"} ELSE {"NameError", "falsy"}

\* The value a Work Item produces and what it does to the kernel:
\* val is the returned value's kind, or "raise" when the item raises.
ItemOutcome(val, cause, d, o) ==
  [val |-> val, cause |-> cause, docs |-> d, objs |-> o]

create_document_gui(name) ==
  IF name = NotAString
    THEN {ItemOutcome("raise", "kernel", docs, objs)}
    ELSE {ItemOutcome("True", "ok", docs \cup {name}, objs)}

create_object_gui(doc_name, name) ==
  UNION { CASE g = "NameError" ->
                 {ItemOutcome("raise", "notfound", docs, objs)}
            [] g = "falsy" ->
                 {ItemOutcome("str", "notfound", docs, objs)}
            [] g = "doc" ->
                 {ItemOutcome("True", "ok", docs, objs \cup {name}),
                  ItemOutcome("str", "kernel", docs, objs)}
          : g \in GetDocument(doc_name) }

delete_object_gui(doc_name, name) ==
  UNION { CASE g = "NameError" ->
                 {ItemOutcome("raise", "notfound", docs, objs)}
            [] g = "falsy" ->
                 {ItemOutcome("str", "notfound", docs, objs)}
            [] g = "doc" ->
                 IF name \in objs
                   THEN {ItemOutcome("True", "ok", docs, objs \ {name})}
                   ELSE {ItemOutcome("str", "notfound", docs, objs)}
          : g \in GetDocument(doc_name) }

\* create_sketch_gui: doc.addObject is the first statement of the try
\* block; what raises after it (_apply_support on a support that is not
\* there, _to_placement, recompute) is caught with the sketch added.
create_sketch_gui(doc_name, name) ==
  UNION { CASE g = "NameError" ->
                 {ItemOutcome("raise", "notfound", docs, objs)}
            [] g = "falsy" ->
                 {ItemOutcome("str", "notfound", docs, objs)}
            [] g = "doc" ->
                 IF name \in objs
                   THEN {ItemOutcome("str", "exists", docs, objs)}
                   ELSE {ItemOutcome("dict", "ok", docs, objs \cup {name}),
                         ItemOutcome("str", "kernel", docs, objs),
                         ItemOutcome("str", "kernel", docs,
                                     objs \cup {name})}
          : g \in GetDocument(doc_name) }

\* The objects the PartDesign operations are pointed at, and the names
\* FreeCAD gives a new feature: the one asked for, or the next free one.
BodyName == "Body"
SketchName == "Sketch"
AxisName == "Axis"
FeatureNames == << "Feature", "Feature001", "Feature002" >>
FreeNames == {i \in DOMAIN FeatureNames : FeatureNames[i] \notin objs}
NewName == FeatureNames[CHOOSE i \in FreeNames : \A j \in FreeNames : i <= j]

\* The part pad_gui, pocket_gui, revolve_gui, fillet_gui and chamfer_gui
\* share: the document, the body and the profile (or base feature) are
\* looked up, then `rest` is what the try block does.
FeatureLookup(doc_name, body_name, base_name, rest) ==
  UNION { CASE g = "NameError" ->
                 {ItemOutcome("raise", "notfound", docs, objs)}
            [] g = "falsy" ->
                 {ItemOutcome("str", "notfound", docs, objs)}
            [] g = "doc" ->
                 IF body_name \notin objs \/ base_name \notin objs
                   THEN {ItemOutcome("str", "notfound", docs, objs)}
                   ELSE rest
          : g \in GetDocument(doc_name) }

\* The try block: doc.addObject, then the assignments and recompute; an
\* exception of addObject leaves the document as it was, a later one is
\* caught with the feature added.
FeatureTry ==
  {ItemOutcome("dict", "ok", docs, objs \cup {NewName}),
   ItemOutcome("str", "kernel", docs, objs),
   ItemOutcome("str", "kernel", docs, objs \cup {NewName})}

pad_gui(doc_name, body_name, sketch_name) ==
  FeatureLookup(doc_name, body_name, sketch_name, FeatureTry)

pocket_gui(doc_name, body_name, sketch_name) ==
  FeatureLookup(doc_name, body_name, sketch_name, FeatureTry)

\* revolve_gui: with an axis_object that is not in the document it returns
\* "Axis object ... not found." after the Revolution has been added.
revolve_gui(doc_name, body_name, sketch_name, axis_object) ==
  FeatureLookup(doc_name, body_name, sketch_name,
    IF axis_object # None /\ axis_object \notin objs
      THEN {ItemOutcome("str", "kernel", docs, objs),
            ItemOutcome("str", "notfound", docs, objs \cup {NewName})}
      ELSE FeatureTry)

fillet_gui(doc_name, body_name, feature_name) ==
  FeatureLookup(doc_name, body_name, feature_name, FeatureTry)

chamfer_gui(doc_name, body_name, feature_name) ==
  FeatureLookup(doc_name, body_name, feature_name, FeatureTry)

execute_code_gui ==
  {ItemOutcome("tuple_ok", "ok", docs, objs),
   ItemOutcome("tuple_err", "kernel", docs, objs)}

check_view_supports_screenshots ==
  {ItemOutcome("True", "ok", docs, objs),
   ItemOutcome("False", "ok", docs, objs)}

save_active_screenshot ==
  {ItemOutcome("True", "ok", docs, objs),
   ItemOutcome("str", "kernel", docs, objs)}

\* task(): the outcomes of running Work Item it against the kernel.
RunTask(it) ==
  CASE it.m = "create_document" -> create_document_gui(it.arg)
    [] it.m = "create_object" -> create_object_gui(DocName, ObjName)
    [] it.m = "delete_object" -> delete_object_gui(DocName, ObjName)
    [] it.m = "create_sketch" -> create_sketch_gui(DocName, ObjName)
    [] it.m = "execute_code" -> execute_code_gui
    [] it.m = "check_view" -> check_view_supports_screenshots
    [] it.m = "save_screenshot" -> save_active_screenshot

----------------------------------------------------------------------------
\* The queue pair and the GUI-thread pump

\* A Work Item: its arrival number, the operation it closes over, and the
\* call that put it.
WorkItem(n, m, arg, c) == [item |-> n, m |-> m, arg |-> arg, call |-> c]

\* A loop without its test: `while True`.
LoopGuardAlways(q) == TRUE

\* `while not rpc_request_queue.empty()`
LoopGuard(q) == q # << >>

\* Reading the head without removing it.
DequeuePeek(q) == q

\* rpc_request_queue.get(): the queue without the item taken.
Dequeue(q) == Tail(q)

\* The test inverted: `if res is None`.
PublishInverted(q, res) == IF res.val = None THEN Append(q, res) ELSE q

\* `if res is not None: rpc_response_queue.put(res)`
Publish(q, res) == IF res.val # None THEN Append(q, res) ELSE q

\* How many times Work Item n has been executed so far (once at most is
\* told apart from more).
TimesRun(n) == IF n \in executed THEN 1 ELSE 0

NoAct == [snap |-> << >>, drained |-> << >>, put |-> << >>]

\* What one step did, for the properties to read; a step that did none of
\* these leaves the field at its value here.
\*   msg:    the message a lifecycle command returned
\*   take:   the nth take from the result queue, by the bridge call that
\*           put Work Item `mine`, took the result of Work Item `item`
\*   exec:   Work Item `item` was executed on `thread`, for the run-th time,
\*           and returned val (or raised) because of `cause`
\*   kernel: thread `thread` called into the kernel for method m
\*   reply:  the handler of method m answered `reply`; val is the value it
\*           took from the result queue, if it took one
\*   ended:  a pump activation ended (how: "rescheduled" or "raised"),
\*           having found Work Items `snap` queued, dequeued and run
\*           `drained` (each with the value it returned), and put the
\*           results of Work Items `put` on the result queue
NoEvent ==
  [msg |-> None,
   take |-> [nth |-> 0, mine |-> 0, item |-> 0],
   exec |-> [item |-> 0, thread |-> None, val |-> None, cause |-> None,
             run |-> 0],
   kernel |-> [thread |-> None, m |-> None],
   reply |-> [m |-> None, cause |-> None, val |-> None,
              reply |-> [kind |-> None, success |-> FALSE, data |-> None,
                         error |-> None]],
   ended |-> [how |-> None, snap |-> << >>, drained |-> << >>,
              put |-> << >>]]

\* The arrival numbers of the Work Items in queue q, oldest first.
ItemsOf(q) == [i \in DOMAIN q |-> q[i].item]

\* The loop test of an activation that has done a so far and leaves
\* `timers` pump timers pending: into the loop body, or out of the loop to
\* the singleShot line, which re-arms the timer, and back to the event loop.
PumpTest(a, timers) ==
  IF LoopGuard(rpc_request_queue)
    THEN /\ gui' = "pump_get"
         /\ act' = a
         /\ pumpTimers' = timers
         /\ ev' = NoEvent
    ELSE /\ gui' = "idle"
         /\ act' = NoAct
         /\ pumpTimers' = timers + 1
         /\ ev' = [NoEvent EXCEPT
                     !.ended = [how |-> "rescheduled", snap |-> a.snap,
                                drained |-> a.drained, put |-> a.put]]

\* A 500 ms timer fires: process_gui_tasks is entered and makes its first
\* loop test.
PumpActivate ==
  /\ gui = "idle"
  /\ pumpTimers > 0
  /\ PumpTest([NoAct EXCEPT !.snap = ItemsOf(rpc_request_queue)],
              pumpTimers - 1)
  /\ UNCHANGED << initTimer, rpc_request_queue, rpc_response_queue,
                  rpc_server_instance, rpc_server_thread, servers, threads,
                  shutdownReq, nStarts, settings, calls, nPut, nTake, docs,
                  objs, executed >>
  /\ UNCHANGED nonServerVars

\* The loop test after a Work Item.
PumpCheck ==
  /\ gui = "pump_check"
  /\ PumpTest(act, pumpTimers)
  /\ UNCHANGED << initTimer, rpc_request_queue, rpc_response_queue,
                  rpc_server_instance, rpc_server_thread, servers, threads,
                  shutdownReq, nStarts, settings, calls, nPut, nTake, docs,
                  objs, executed >>
  /\ UNCHANGED nonServerVars

\* One turn of the loop body: get() (which waits for an item), task(), and
\* the put of a non-None result.  A Work Item that raises ends
\* process_gui_tasks before its singleShot line.
PumpRun ==
  /\ gui = "pump_get"
  /\ rpc_request_queue # << >>
  /\ LET it == Head(rpc_request_queue) IN
     \E out \in RunTask(it) :
       LET res == [item |-> it.item, m |-> it.m, val |-> out.val,
                   cause |-> out.cause]
           drained == Append(act.drained, [item |-> it.item,
                                           val |-> out.val])
           published == Publish(rpc_response_queue, res)
           added == SubSeq(published, Len(rpc_response_queue) + 1,
                           Len(published))
       IN
       /\ rpc_request_queue' = Dequeue(rpc_request_queue)
       /\ docs' = out.docs
       /\ objs' = out.objs
       /\ executed' = executed \cup {it.item}
       /\ ev' = [NoEvent EXCEPT
                   !.exec = [item |-> it.item, thread |-> "gui",
                             val |-> out.val, cause |-> out.cause,
                             run |-> TimesRun(it.item) + 1],
                   !.kernel = [thread |-> "gui", m |-> it.m],
                   !.ended = IF out.val = "raise"
                               THEN [how |-> "raised", snap |-> act.snap,
                                     drained |-> drained, put |-> act.put]
                               ELSE @]
       /\ IF out.val = "raise"
            THEN /\ gui' = "idle"
                 /\ act' = NoAct
                 /\ UNCHANGED rpc_response_queue
            ELSE /\ gui' = "pump_check"
                 /\ rpc_response_queue' = published
                 /\ act' = [act EXCEPT !.drained = drained,
                                       !.put = @ \o ItemsOf(added)]
  /\ UNCHANGED << pumpTimers, initTimer, rpc_server_instance,
                  rpc_server_thread, servers, threads, shutdownReq, nStarts,
                  settings, calls, nPut, nTake >>
  /\ UNCHANGED nonServerVars

\* The operations that create a sketch or a feature.
CreatingOps ==
  {"create_sketch", "pad", "pocket", "revolve", "fillet", "chamfer"}

\* The Work Item of one of them, closed over its arguments.
FeatureTask(op, axis_object) ==
  CASE op = "create_sketch" -> create_sketch_gui(DocName, SketchName)
    [] op = "pad" -> pad_gui(DocName, BodyName, SketchName)
    [] op = "pocket" -> pocket_gui(DocName, BodyName, SketchName)
    [] op = "revolve" ->
         revolve_gui(DocName, BodyName, SketchName, axis_object)
    [] op = "fillet" -> fillet_gui(DocName, BodyName, FeatureNames[1])
    [] op = "chamfer" -> chamfer_gui(DocName, BodyName, FeatureNames[1])

\* The pump runs the Work Item of a creating operation, seen without the
\* queues around it.  (No further feature is asked for once FreeCAD's
\* generated names run out.)
RunFeature(op, axis_object) ==
  /\ gui = "idle"
  /\ FreeNames # {}
  /\ \E out \in FeatureTask(op, axis_object) :
       /\ docs' = out.docs
       /\ objs' = out.objs
       /\ ev' = [NoEvent EXCEPT
                   !.exec = [item |-> 0, thread |-> "gui", val |-> out.val,
                             cause |-> out.cause, run |-> 1],
                   !.kernel = [thread |-> "gui", m |-> op]]
  /\ UNCHANGED << gui, pumpTimers, initTimer, rpc_request_queue,
                  rpc_response_queue, rpc_server_instance, rpc_server_thread,
                  servers, threads, shutdownReq, nStarts, settings, calls,
                  nPut, nTake, executed, act >>
  /\ UNCHANGED nonServerVars

----------------------------------------------------------------------------
\* The transport endpoint's serving thread and the FreeCADRPC methods

IdleCall ==
  [pc |-> "idle", m |-> None, arg |-> None, srv |-> None, mine |-> 0]
DoneCall == [IdleCall EXCEPT !.pc = "done"]

\* The calls a handler of serving thread s is in the middle of.
Active(s) ==
  {c \in CallIds : calls[c].srv = s
                   /\ calls[c].pc \in {"run", "wait", "run2", "wait2"}}

\* A bridge call is in flight from its put on the request queue to its
\* take from the result queue.
InFlight == {c \in CallIds : calls[c].pc \in {"wait", "wait2"}}

\* A threading server: a handler thread per request.
CanAcceptThreaded(s) == TRUE

\* SimpleXMLRPCServer.serve_forever handles one request at a time on the
\* serving thread: the next one is accepted when the handler has returned.
CanAccept(s) == Active(s) = {}

\* What a method hands back to the transport: the response envelope, a
\* plain value (ping, get_active_screenshot), or an exception, which the
\* XML-RPC dispatcher turns into a fault.
Envelope(s, d, e) ==
  [kind |-> "envelope", success |-> s, data |-> d, error |-> e]
Plain(v) == [kind |-> "plain", success |-> FALSE, data |-> v, error |-> None]
Fault == [kind |-> "fault", success |-> FALSE, data |-> None, error |-> None]

\* A method that reports every outcome as a success.
ReplyAlwaysSuccess(m, val) == Envelope(TRUE, "data", val)

\* What a queue-bridged method makes of the value it took.
Reply(m, val) ==
  CASE m \in TrueMethods ->
         IF val = "True" THEN Envelope(TRUE, "data", None)
                         ELSE Envelope(FALSE, None, val)
    [] m \in DictMethods ->
         IF val = "dict" THEN Envelope(TRUE, "dict", None)
                         ELSE Envelope(FALSE, None, val)
    [] m = "execute_code" ->
         IF val = "tuple_ok" THEN Envelope(TRUE, "output", None)
         ELSE IF val = "tuple_err" THEN Envelope(FALSE, None, "str")
         ELSE Fault
    [] m = "get_active_screenshot" ->
         IF val = "True" THEN Plain("base64") ELSE Plain(None)

\* Reading the oldest value without removing it.
TakeRestPeek(q) == q

\* rpc_response_queue.get(): the queue without the value taken.
TakeRest(q) == Tail(q)

\* A client connects to the listening endpoint to make call c.
Arrive(c) ==
  /\ calls[c].pc = "idle"
  /\ c > 1 => calls[c - 1].pc # "idle"
  /\ servers # {}
  /\ calls' = [calls EXCEPT ![c].pc = "arrived"]
  /\ ev' = NoEvent
  /\ UNCHANGED << gui, pumpTimers, initTimer, rpc_request_queue,
                  rpc_response_queue, rpc_server_instance, rpc_server_thread,
                  servers, threads, shutdownReq, nStarts, settings, nPut,
                  nTake, docs, objs, executed, act >>
  /\ UNCHANGED nonServerVars

\* serve_forever on thread s takes the oldest waiting connection, reads
\* request r and dispatches it to the FreeCADRPC method.
Accept(c, s, r) ==
  /\ calls[c].pc = "arrived"
  /\ \A d \in CallIds : d < c => calls[d].pc # "arrived"
  /\ s \in threads
  /\ s \notin shutdownReq
  /\ CanAccept(s)
  /\ calls' = [calls EXCEPT ![c] = [pc |-> "run", m |-> r.m, arg |-> r.arg,
                                    srv |-> s, mine |-> 0]]
  /\ ev' = NoEvent
  /\ UNCHANGED << gui, pumpTimers, initTimer, rpc_request_queue,
                  rpc_response_queue, rpc_server_instance, rpc_server_thread,
                  servers, threads, shutdownReq, nStarts, settings, nPut,
                  nTake, docs, objs, executed, act >>
  /\ UNCHANGED nonServerVars

\* What a handler that answers without the queues does with the result g
\* of FreeCAD.getDocument: its answer and why.
DirectAnswer(cause, reply) == [cause |-> cause, reply |-> reply]

get_objects(g) ==
  CASE g = "NameError" ->
         DirectAnswer("notfound", Envelope(FALSE, None, "str"))
    [] g = "falsy" -> DirectAnswer("notfound", Fault)
    [] g = "doc" -> DirectAnswer("ok", Envelope(TRUE, "list", None))

get_object(g) ==
  CASE g = "NameError" ->
         DirectAnswer("notfound", Envelope(FALSE, None, "str"))
    [] g = "falsy" -> DirectAnswer("notfound", Fault)
    [] g = "doc" ->
         IF ObjName \in objs
           THEN DirectAnswer("ok", Envelope(TRUE, "dict", None))
           ELSE DirectAnswer("notfound", Envelope(FALSE, None, "str"))

list_documents == DirectAnswer("ok", Envelope(TRUE, "list", None))

ping == DirectAnswer("ok", Plain("True"))

\* ping, get_objects, get_object, list_documents run wholly in the
\* handler, on the serving thread.
HandleDirect(c) ==
  /\ calls[c].pc = "run"
  /\ calls[c].m \in DirectMethods \cup {"ping"}
  /\ LET m == calls[c].m IN
     \E g \in GetDocument(DocName) :
       LET a == CASE m = "ping" -> ping
                  [] m = "list_documents" -> list_documents
                  [] m = "get_objects" -> get_objects(g)
                  [] m = "get_object" -> get_object(g)
       IN
       ev' = [NoEvent EXCEPT
                !.reply = [m |-> m, cause |-> a.cause, val |-> None,
                            reply |-> a.reply],
                !.kernel = IF m = "ping" THEN @
                           ELSE [thread |-> "transport", m |-> m]]
  /\ calls' = [calls EXCEPT ![c] = DoneCall]
  /\ UNCHANGED << gui, pumpTimers, initTimer, rpc_request_queue,
                  rpc_response_queue, rpc_server_instance, rpc_server_thread,
                  servers, threads, shutdownReq, nStarts, settings, nPut,
                  nTake, docs, objs, executed, act >>
  /\ UNCHANGED nonServerVars

\* rpc_request_queue.put(lambda: ...): the first half of a bridge call.
BridgePut(c) ==
  /\ \/ /\ calls[c].pc = "run"
        /\ calls[c].m \notin DirectMethods \cup {"ping"}
     \/ calls[c].pc = "run2"
  /\ LET m == CASE calls[c].m # "get_active_screenshot" -> calls[c].m
                [] calls[c].pc = "run" -> "check_view"
                [] OTHER -> "save_screenshot"
     IN rpc_request_queue' =
          Append(rpc_request_queue, WorkItem(nPut + 1, m, calls[c].arg, c))
  /\ nPut' = nPut + 1
  /\ calls' = [calls EXCEPT ![c].pc = IF calls[c].pc = "run" THEN "wait"
                                                             ELSE "wait2",
                            ![c].mine = nPut + 1]
  /\ ev' = NoEvent
  /\ UNCHANGED << gui, pumpTimers, initTimer, rpc_response_queue,
                  rpc_server_instance, rpc_server_thread, servers, threads,
                  shutdownReq, nStarts, settings, nTake, docs, objs,
                  executed, act >>
  /\ UNCHANGED nonServerVars

\* res = rpc_response_queue.get(), which waits for a value, and the
\* method's answer built from it.
BridgeTake(c) ==
  /\ calls[c].pc \in {"wait", "wait2"}
  /\ rpc_response_queue # << >>
  /\ LET res == Head(rpc_response_queue)
         m == calls[c].m
         again == /\ m = "get_active_screenshot"
                  /\ calls[c].pc = "wait"
                  /\ res.val # "False"
     IN
     /\ rpc_response_queue' = TakeRest(rpc_response_queue)
     /\ nTake' = nTake + 1
     /\ calls' = [calls EXCEPT ![c] = IF again THEN [@ EXCEPT !.pc = "run2"]
                                                ELSE DoneCall]
     /\ ev' = [NoEvent EXCEPT
                 !.take = [nth |-> nTake + 1, mine |-> calls[c].mine,
                           item |-> res.item],
                 !.reply = IF again THEN @
                           ELSE [m |-> m, cause |-> res.cause,
                                 val |-> res.val,
                                 reply |-> IF m = "get_active_screenshot"
                                                /\ calls[c].pc = "wait"
                                             THEN Plain(None)
                                             ELSE Reply(m, res.val)]]
  /\ UNCHANGED << gui, pumpTimers, initTimer, rpc_request_queue,
                  rpc_server_instance, rpc_server_thread, servers, threads,
                  shutdownReq, nStarts, settings, nPut, docs, objs,
                  executed, act >>
  /\ UNCHANGED nonServerVars

\* serve_forever sees the shutdown request between two requests and
\* returns; server_loop ends and with it the thread.
ServeExit(s) ==
  /\ s \in threads
  /\ s \in shutdownReq
  /\ Active(s) = {}
  /\ threads' = threads \ {s}
  /\ ev' = NoEvent
  /\ UNCHANGED << gui, pumpTimers, initTimer, rpc_request_queue,
                  rpc_response_queue, rpc_server_instance, rpc_server_thread,
                  servers, shutdownReq, nStarts, settings, calls, nPut,
                  nTake, docs, objs, executed, act >>
  /\ UNCHANGED nonServerVars

----------------------------------------------------------------------------
\* The allow-list of client addresses: validate_allowed_ips

MaxLen == 4

\* A string is a sequence of pieces: a comma, a run of whitespace, or a
\* word, which is a run of characters with neither in it.  Two words next
\* to each other read as one longer word.
Words == {"127.0.0.1", "10.0.0.0/8", "not-an-ip"}
Pieces == Words \cup {",", " "}
Inputs == UNION {[1 .. n -> Pieces] : n \in 0 .. MaxLen}

\* str.strip()
RECURSIVE LStrip(_)
LStrip(s) == IF s # << >> /\ Head(s) = " " THEN LStrip(Tail(s)) ELSE s

RECURSIVE RStrip(_)
RStrip(s) ==
  IF s # << >> /\ s[Len(s)] = " " THEN RStrip(SubSeq(s, 1, Len(s) - 1))
                                  ELSE s

Strip(s) == LStrip(RStrip(s))

\* str.split(","): the pieces between the commas, empty ones included.
RECURSIVE Split(_, _, _)
Split(s, cur, acc) ==
  IF s = << >> THEN Append(acc, cur)
  ELSE IF Head(s) = "," THEN Split(Tail(s), << >>, Append(acc, cur))
  ELSE Split(Tail(s), Append(cur, Head(s)), acc)

\* A pattern that every string matches.
MatchAny(s) == TRUE

\* The pattern ^\s*[^,\s]+(\s*,\s*[^,\s]+)*\s*$ read as an automaton: q is
\* "lead" before the first word, "word" inside a word, "trail" in the
\* whitespace after a word, "sep" after a comma.
RECURSIVE ReMatch(_, _)
ReMatch(s, q) ==
  IF s = << >> THEN q \in {"word", "trail"}
  ELSE LET p == Head(s) IN
    CASE q = "lead" ->
           IF p = " " THEN ReMatch(Tail(s), "lead")
           ELSE IF p = "," THEN FALSE
           ELSE ReMatch(Tail(s), "word")
      [] q = "word" ->
           IF p = " " THEN ReMatch(Tail(s), "trail")
           ELSE IF p = "," THEN ReMatch(Tail(s), "sep")
           ELSE ReMatch(Tail(s), "word")
      [] q = "trail" ->
           IF p = " " THEN ReMatch(Tail(s), "trail")
           ELSE IF p = "," THEN ReMatch(Tail(s), "sep")
           ELSE FALSE
      [] q = "sep" ->
           IF p = " " THEN ReMatch(Tail(s), "sep")
           ELSE IF p = "," THEN FALSE
           ELSE ReMatch(Tail(s), "word")

\* _COMMA_SEP_RE.match(ip_str)
_COMMA_SEP_RE(s) == ReMatch(s, "lead")

\* A parser that takes every entry for a network.
ip_networkAny(entry) == TRUE

\* ipaddress.ip_network(entry, strict=False) returns rather than raising
\* ValueError: the entry is one address or one subnet.
ip_network(entry) ==
  /\ Len(entry) = 1
  /\ entry[1] \in {"127.0.0.1", "10.0.0.0/8"}

IpError(msg, entry) == [msg |-> msg, entry |-> entry]
IpResult(valid, errors) == [valid |-> valid, errors |-> errors]

\* The loop over the entries of validate_allowed_ips.
RECURSIVE ValidateEntries(_, _, _)
ValidateEntries(parts, valid, errors) ==
  IF parts = << >> THEN IpResult(valid, errors)
  ELSE LET entry == Strip(Head(parts)) IN
    IF ip_network(entry)
      THEN ValidateEntries(Tail(parts), Append(valid, entry), errors)
      ELSE ValidateEntries(Tail(parts), valid,
                           Append(errors, IpError("Invalid IP/subnet",
                                                  entry)))

validate_allowed_ips(ip_str) ==
  IF ip_str = << >> \/ Strip(ip_str) = << >>
    THEN IpResult(<< >>, << IpError("Input must not be empty.", << >>) >>)
  ELSE IF ~_COMMA_SEP_RE(ip_str)
    THEN IpResult(<< >>, << IpError("Malformed list", << >>) >>)
  ELSE ValidateEntries(Split(ip_str, << >>, << >>), << >>, << >>)

\* _parse_allowed_ips: the networks of the valid entries.
_parse_allowed_ips(allowed_ips_str) ==
  validate_allowed_ips(allowed_ips_str).valid

\* ", ".join(valid)
RECURSIVE Join(_)
Join(valid) ==
  IF Len(valid) <= 1 THEN (IF valid = << >> THEN << >> ELSE Head(valid))
  ELSE Head(valid) \o << ",", " " >> \o Join(Tail(valid))

\* The addresses clients connect from, and `addr in network`.
ClientAddresses == {"127.0.0.1", "10.1.2.3", "192.168.1.20"}
InNetwork(addr, network) ==
  \/ network = << "127.0.0.1" >> /\ addr = "127.0.0.1"
  \/ network = << "10.0.0.0/8" >> /\ addr = "10.1.2.3"

\* An endpoint that consults the stored setting at each connection.
verify_requestLive(sv, client_ip) ==
  \E i \in DOMAIN _parse_allowed_ips(allowed_ips) :
    InNetwork(client_ip, _parse_allowed_ips(allowed_ips)[i])

\* FilteredXMLRPCServer.verify_request on endpoint sv: the networks are the
\* ones its constructor parsed.
verify_request(sv, client_ip) ==
  \E i \in DOMAIN sv._allowed_networks :
    InNetwork(client_ip, sv._allowed_networks[i])

----------------------------------------------------------------------------
\* Server lifecycle: start_rpc_server, stop_rpc_server, the toolbar
\* commands and _init_gui.  All of it runs on the GUI thread.

\* The n-th server object constructed, and the thread serving it.
ServerId(n) == ToString(n)
ServerIds == {ServerId(n) : n \in 1 .. MaxStarts}

\* start_rpc_server without its guard.
AlreadyRunningNever == FALSE

\* `if rpc_server_instance:` at the top of start_rpc_server.
AlreadyRunning == rpc_server_instance # None

\* host chosen from the settings loaded in start_rpc_server.
BindHost(st) == IF st.remote_enabled THEN "0.0.0.0" ELSE "localhost"

\* start_rpc_server() under settings st.  bindOk: whether the endpoint's
\* constructor can bind the port; when it cannot, OSError leaves
\* start_rpc_server before rpc_server_instance is assigned.
start_rpc_server(st, bindOk) ==
  IF AlreadyRunning
    THEN /\ ev' = [NoEvent EXCEPT !.msg = "RPC Server already running."]
         /\ UNCHANGED << rpc_server_instance, rpc_server_thread, servers,
                         threads, nStarts, pumpTimers >>
    ELSE IF ~bindOk
      THEN /\ ev' = [NoEvent EXCEPT !.msg = "OSError"]
           /\ UNCHANGED << rpc_server_instance, rpc_server_thread, servers,
                           threads, nStarts, pumpTimers >>
      ELSE /\ nStarts < MaxStarts
           /\ nStarts' = nStarts + 1
           /\ rpc_server_instance' = ServerId(nStarts + 1)
           /\ servers' =
                servers \cup {[id |-> ServerId(nStarts + 1),
                               host |-> BindHost(st),
                               _allowed_networks |->
                                 _parse_allowed_ips(allowed_ips)]}
           /\ rpc_server_thread' = ServerId(nStarts + 1)
           /\ threads' = threads \cup {ServerId(nStarts + 1)}
           /\ pumpTimers' = pumpTimers + 1
           /\ ev' = [NoEvent EXCEPT !.msg = "RPC Server started."]

\* A direct call of start_rpc_server().
Start ==
  /\ gui = "idle"
  /\ \E bindOk \in BOOLEAN : start_rpc_server(settings, bindOk)
  /\ UNCHANGED << gui, initTimer, rpc_request_queue, rpc_response_queue,
                  shutdownReq, settings, calls, nPut, nTake, docs, objs,
                  executed, act >>
  /\ UNCHANGED nonServerVars

\* stop_rpc_server without its guard.
StopGuardAlways == TRUE

\* `if rpc_server_instance:` at the top of stop_rpc_server.
StopGuard == rpc_server_instance # None

\* stop_rpc_server() up to shutdown(), which waits for serve_forever to
\* return; when no server is running it returns at once.
stop_rpc_server ==
  IF StopGuard
    THEN /\ shutdownReq' = shutdownReq \cup {rpc_server_instance}
         /\ gui' = "stop_wait"
         /\ ev' = NoEvent
    ELSE /\ ev' = [NoEvent EXCEPT !.msg = "RPC Server was not running."]
         /\ UNCHANGED << shutdownReq, gui >>

Stop ==
  /\ gui = "idle"
  /\ stop_rpc_server
  /\ UNCHANGED << pumpTimers, initTimer, rpc_request_queue,
                  rpc_response_queue, rpc_server_instance, rpc_server_thread,
                  servers, threads, nStarts, settings, calls, nPut, nTake,
                  docs, objs, executed, act >>
  /\ UNCHANGED nonServerVars

\* shutdown() and join() have returned: the rest of stop_rpc_server.
\* Dropping the last reference to the server object closes its socket, and
\* the requests waiting on it are lost.
StopFinish ==
  /\ gui = "stop_wait"
  /\ rpc_server_thread \notin threads
  /\ servers' = {sv \in servers : sv.id # rpc_server_instance}
  /\ shutdownReq' = shutdownReq \ {rpc_server_instance}
  /\ rpc_server_instance' = None
  /\ rpc_server_thread' = None
  /\ calls' = [c \in CallIds |->
                 IF calls[c].pc = "arrived" THEN DoneCall ELSE calls[c]]
  /\ gui' = "idle"
  /\ ev' = [NoEvent EXCEPT !.msg = "RPC Server stopped."]
  /\ UNCHANGED << pumpTimers, initTimer, rpc_request_queue,
                  rpc_response_queue, threads, nStarts, settings, nPut,
                  nTake, docs, objs, executed, act >>
  /\ UNCHANGED nonServerVars

\* ToggleRPCServerCommand.Activated
Toggle ==
  /\ gui = "idle"
  /\ IF rpc_server_instance # None
       THEN /\ stop_rpc_server
            /\ UNCHANGED << rpc_server_instance, rpc_server_thread, servers,
                            threads, nStarts, pumpTimers >>
       ELSE /\ \E bindOk \in BOOLEAN : start_rpc_server(settings, bindOk)
            /\ UNCHANGED << gui, shutdownReq >>
  /\ UNCHANGED << initTimer, rpc_request_queue, rpc_response_queue, settings,
                  calls, nPut, nTake, docs, objs, executed, act >>
  /\ UNCHANGED nonServerVars

\* ToggleRemoteConnectionsCommand.Activated
ToggleRemote ==
  /\ gui = "idle"
  /\ settings' = [settings EXCEPT !.remote_enabled = ~@]
  /\ ev' = NoEvent
  /\ UNCHANGED << gui, pumpTimers, initTimer, rpc_request_queue,
                  rpc_response_queue, rpc_server_instance, rpc_server_thread,
                  servers, threads, shutdownReq, nStarts, calls, nPut, nTake,
                  docs, objs, executed, act >>
  /\ UNCHANGED nonServerVars

\* StartupSettingsDialog.accept
StartupAccept(auto, remote) ==
  /\ gui = "idle"
  /\ settings' = [settings EXCEPT !.auto_start_server = auto,
                                  !.startup_remote_enabled = remote]
  /\ ev' = NoEvent
  /\ UNCHANGED << gui, pumpTimers, initTimer, rpc_request_queue,
                  rpc_response_queue, rpc_server_instance, rpc_server_thread,
                  servers, threads, shutdownReq, nStarts, calls, nPut, nTake,
                  docs, objs, executed, act >>
  /\ UNCHANGED nonServerVars

\* _init_gui, fired by its 2 s timer.  ready: whether the main window
\* exists yet; saved: whether save_settings could write the file (it logs
\* a failure and returns).  start_rpc_server loads the settings from the
\* file again.  Any exception re-arms the timer.
InitGui ==
  /\ gui = "idle"
  /\ initTimer = 1
  /\ \E ready, bindOk, saved \in BOOLEAN :
       IF ~ready
         THEN /\ ev' = NoEvent
              /\ UNCHANGED << initTimer, settings, rpc_server_instance,
                              rpc_server_thread, servers, threads, nStarts,
                              pumpTimers >>
         ELSE LET st == [settings EXCEPT
                           !.remote_enabled = settings.startup_remote_enabled]
                  stored == IF saved THEN st ELSE settings
              IN
              /\ settings' = stored
              /\ IF st.auto_start_server /\ rpc_server_instance = None
                   THEN /\ start_rpc_server(stored, bindOk)
                        /\ initTimer' = IF bindOk THEN 0 ELSE 1
                   ELSE /\ initTimer' = 0
                        /\ ev' = NoEvent
                        /\ UNCHANGED << rpc_server_instance,
                                        rpc_server_thread, servers, threads,
                                        nStarts, pumpTimers >>
  /\ UNCHANGED << gui, rpc_request_queue, rpc_response_queue, shutdownReq,
                  calls, nPut, nTake, docs, objs, executed, act >>
  /\ UNCHANGED nonServerVars

----------------------------------------------------------------------------
\* Property batches: what create_object_gui and edit_object_gui do with the
\* properties of a request once the object exists.

MaxProps == 3

PropNames == {"Length", "Label", "References"}

\* A property of the request and whether assigning it raises (a value of
\* the wrong type, a referenced object that does not exist).
PropItems == [name : PropNames, fails : BOOLEAN]

\* obj.properties: a dict, so no name twice, in insertion order.
Batches ==
  {b \in UNION {[1 .. n -> PropItems] : n \in 0 .. MaxProps} :
     \A i, j \in DOMAIN b : i # j => b[i].name # b[j].name}

\* What a batch did: the properties assigned, those whose failure was
\* logged, and what the operation returns (None while it is still going).
NoProgress == [assigned |-> {}, logged |-> {}, result |-> None]

\* set_object_property: each property in its own try/except.
RECURSIVE set_object_property(_, _)
set_object_property(props, acc) ==
  IF props = << >>
    THEN acc
    ELSE LET prop == Head(props) IN
         set_object_property(
           Tail(props),
           IF prop.fails
             THEN [acc EXCEPT !.logged = @ \cup {prop.name}]
             ELSE [acc EXCEPT !.assigned = @ \cup {prop.name}])

\* The loop of the Fem::FemMeshGmsh branch of create_object_gui: setattr
\* with nothing around it but the try of the whole operation.
RECURSIVE MeshAssign(_, _)
MeshAssign(props, acc) ==
  IF props = << >>
    THEN acc
    ELSE LET prop == Head(props) IN
         IF prop.fails
           THEN [acc EXCEPT !.result = "str"]
           ELSE MeshAssign(Tail(props),
                           [acc EXCEPT !.assigned = @ \cup {prop.name}])

\* `return True` unless the operation has already returned str(e).
Finish(acc) == IF acc.result = None THEN [acc EXCEPT !.result = "True"]
                                    ELSE acc

ObjectTypes == {"Part::Box", "Fem::FemMeshGmsh"}

\* create_object_gui from the point where the object has been made.
CreateAssign(type, props) ==
  IF type = "Fem::FemMeshGmsh"
    THEN Finish(MeshAssign(props, NoProgress))
    ELSE Finish(set_object_property(props, NoProgress))

\* The properties other than References, in their order.
WithoutReferences(props) ==
  SelectSeq(props, LAMBDA prop : prop.name # "References")

\* edit_object_gui from the point where the object has been found.
\* hasRefs: whether the object has a References attribute; the References
\* of the request are then resolved first, outside set_object_property.
EditAssign(hasRefs, props) ==
  LET refs == {i \in DOMAIN props : props[i].name = "References"} IN
  IF hasRefs /\ refs # {}
    THEN IF \E i \in refs : props[i].fails
           THEN [NoProgress EXCEPT !.result = "str"]
           ELSE Finish(set_object_property(
                         WithoutReferences(props),
                         [NoProgress EXCEPT !.assigned = {"References"}]))
    ELSE Finish(set_object_property(props, NoProgress))

PropRun(op, props, acc) ==
  [op |-> op, props |-> props, assigned |-> acc.assigned,
   logged |-> acc.logged, result |-> acc.result]
NoPropRun == PropRun(None, << >>, NoProgress)

\* create_object with a batch of properties, in an open document.
CreateObjectProps(type, props) ==
  /\ prop_run' = PropRun(type, props, CreateAssign(type, props))
  /\ UNCHANGED nonPropVars

\* edit_object with a batch of properties, on an object that exists.
EditObjectProps(hasRefs, props) ==
  /\ prop_run' = PropRun(IF hasRefs THEN "edit_refs" ELSE "edit", props,
                         EditAssign(hasRefs, props))
  /\ UNCHANGED nonPropVars

----------------------------------------------------------------------------
\* Settings persistence: load_settings and save_settings against the file,
\* with the failures the file system can produce.  A settings dict is a
\* function from its keys to Python values, written as their repr.

Keys ==
  {"remote_enabled", "allowed_ips", "auto_start_server",
   "startup_remote_enabled"}

\* The order in which json.dump writes the keys of a loaded record.
KeyOrder ==
  << "remote_enabled", "allowed_ips", "auto_start_server",
     "startup_remote_enabled" >>

\* _DEFAULT_SETTINGS with all its keys.
DefaultItems ==
  [k \in Keys |->
     CASE k = "remote_enabled" -> "False"
       [] k = "allowed_ips" -> "127.0.0.1"
       [] k = "auto_start_server" -> "True"
       [] k = "startup_remote_enabled" -> "False"]

ValuesOf(k) ==
  IF k = "allowed_ips" THEN {"127.0.0.1", "10.0.0.5"} ELSE {"True", "False"}

\* The dicts with some of the keys, and the valid records, with all.
Dicts ==
  {d \in UNION {[D -> {"True", "False", "127.0.0.1", "10.0.0.5"}] :
                  D \in SUBSET Keys} :
     \A k \in DOMAIN d : d[k] \in ValuesOf(k)}
ValidRecords == {d \in Dicts : DOMAIN d = Keys}

\* How json writes a value, and how it reads one back.
JsonText ==
  [v \in {"True", "False", "127.0.0.1", "10.0.0.5"} |->
     CASE v = "True" -> "true"
       [] v = "False" -> "false"
       [] v = "127.0.0.1" -> "\"127.0.0.1\""
       [] v = "10.0.0.5" -> "\"10.0.0.5\""]

\* Writing the repr instead of JSON.
EncodeRepr(v) == v

Encode(v) == JsonText[v]

Decode(t) ==
  IF \E v \in DOMAIN JsonText : JsonText[v] = t
    THEN CHOOSE v \in DOMAIN JsonText : JsonText[v] = t
    ELSE "JSONDecodeError"

\* The content of the file: a JSON object with its members in order, closed
\* or cut short; a JSON array of strings; a number; or no JSON at all.
ObjectText(members, closed) ==
  [kind |-> "text", form |-> "object", members |-> members,
   closed |-> closed]
ArrayText(strings) ==
  [kind |-> "text", form |-> "array",
   members |-> [i \in DOMAIN strings |->
                  [key |-> strings[i], text |-> "string"]],
   closed |-> TRUE]
OtherText(form) ==
  [kind |-> "text", form |-> form, members |-> << >>, closed |-> TRUE]
NoFile == [kind |-> "missing", form |-> None, members |-> << >>,
           closed |-> FALSE]
Unreadable == [NoFile EXCEPT !.kind = "unreadable"]

\* json.dump(settings, f): the members of d in key order.
Members(d) ==
  LET keys == SelectSeq(KeyOrder, LAMBDA k : k \in DOMAIN d) IN
  [i \in DOMAIN keys |-> [key |-> keys[i], text |-> Encode(d[keys[i]])]]
Dump(d) == ObjectText(Members(d), TRUE)

\* json.load(f): the value parsed, or the exception.
Parsed(type, value, strings) ==
  [type |-> type, value |-> value, strings |-> strings]
ParseError == Parsed("JSONDecodeError", << >>, {})

Parse(f) ==
  CASE f.form = "object" ->
         IF /\ f.closed
            /\ \A i \in DOMAIN f.members :
                 Decode(f.members[i].text) # "JSONDecodeError"
           THEN Parsed("dict",
                       [k \in {f.members[i].key : i \in DOMAIN f.members} |->
                          LET i == CHOOSE j \in DOMAIN f.members :
                                     f.members[j].key = k
                          IN Decode(f.members[i].text)],
                       {})
           ELSE ParseError
    [] f.form = "array" ->
         Parsed("list", << >>, {f.members[i].key : i \in DOMAIN f.members})
    [] f.form = "number" -> Parsed("int", << >>, {})
    [] OTHER -> ParseError

\* Returning the defaults whatever the file stores.
FillDefaultsOverwrite(d) == DefaultItems

\* `for key, value in _DEFAULT_SETTINGS.items(): if key not in settings:
\* settings[key] = value` on a dict.
FillDefaults(d) ==
  [k \in Keys \cup DOMAIN d |-> IF k \in DOMAIN d THEN d[k]
                                                   ELSE DefaultItems[k]]

\* load_settings(): what it returns.  A list that holds every key passes
\* the loop untouched and is returned as it is; any other value that is
\* not a dict raises TypeError inside the try.
Defaults == Parsed("dict", DefaultItems, {})

load_settings(f) ==
  IF f.kind = "missing" THEN Defaults
  ELSE IF f.kind = "unreadable" THEN Defaults
  ELSE LET v == Parse(f) IN
       CASE v.type = "dict" -> Parsed("dict", FillDefaults(v.value), {})
         [] v.type = "list" -> IF Keys \subseteq v.strings THEN v
                                                          ELSE Defaults
         [] OTHER -> Defaults

\* How a write can go: to its end, refused at open(), or cut after n
\* members (the disk fills up, the process is killed).
WriteFailures == {"none", "open", "midway"}

\* save_settings(d): the file it leaves.  open(path, "w") empties the file
\* before anything is written.
save_settings(f, d, fail, n) ==
  CASE fail = "open" -> f
    [] fail = "midway" -> ObjectText(SubSeq(Members(d), 1, n), FALSE)
    [] fail = "none" -> Dump(d)

\* What a settings operation did: the file it found, the record it was
\* given (save) or came to (a command), how its write went, what it
\* returned (load), and the exception that left it, if one did.
SettingsOut(op, before, record, fail, result, raised) ==
  [op |-> op, before |-> before, record |-> record, fail |-> fail,
   result |-> result, raised |-> raised]
NoResult == Parsed(None, << >>, {})
NoSettingsOut == SettingsOut(None, NoFile, << >>, None, NoResult, None)

\* The record the file holds for certain: that of the latest save whose
\* write went to its end, << >> once a later write was cut short.
Remember(d, fail) ==
  CASE fail = "none" -> d
    [] fail = "open" -> lastSaved
    [] fail = "midway" -> << >>

\* The ways a write of d can go, with the members written when cut short.
WriteOutcomes(d) ==
  {<< "none", 0 >>, << "open", 0 >>}
    \cup {<< "midway", n >> : n \in 0 .. Len(Members(d))}

\* load_settings()
LoadSettings ==
  /\ settings_out' = SettingsOut("load", file, << >>, None,
                                 load_settings(file), None)
  /\ UNCHANGED << file, lastSaved >>
  /\ UNCHANGED nonDiskVars

\* save_settings(d) for a valid record d
SaveSettings(d, w) ==
  /\ file' = save_settings(file, d, w[1], w[2])
  /\ lastSaved' = Remember(d, w[1])
  /\ settings_out' = SettingsOut("save", file, d, w[1], NoResult, None)
  /\ UNCHANGED nonDiskVars

Not(b) == IF b = "True" THEN "False" ELSE "True"

\* ToggleRemoteConnectionsCommand.Activated with the file as it is:
\* load_settings(), settings.get(...), the item assignment, save_settings().
ToggleRemoteActivated ==
  /\ LET st == load_settings(file) IN
     IF st.type # "dict"
       THEN /\ settings_out' = SettingsOut("toggle_remote", file, << >>,
                                           None, st, "AttributeError")
            /\ UNCHANGED << file, lastSaved >>
       ELSE LET d == [st.value EXCEPT !["remote_enabled"] = Not(@)] IN
            \E w \in WriteOutcomes(d) :
              /\ file' = save_settings(file, d, w[1], w[2])
              /\ lastSaved' = Remember(d, w[1])
              /\ settings_out' = SettingsOut("toggle_remote", file, d, w[1],
                                             st, None)
  /\ UNCHANGED nonDiskVars

\* The files the addon can find at its first load.
InitialFiles ==
  {NoFile, Unreadable, OtherText("garbage"), OtherText("number"),
   ArrayText(<< >>), ArrayText(KeyOrder)}
    \cup {Dump(d) : d \in Dicts}

DiskInit ==
  /\ lastSaved = << >>
  /\ settings_out = NoSettingsOut

----------------------------------------------------------------------------
\* The MCP server process: the connection cache of connection.py and the
\* tools built on it.  The FreeCAD addon is seen from here through its
\* answers only.

Hosts == {"localhost", "192.168.1.20"}

\* What listens on port 9875 of a host: nothing, the FreeCAD addon, or some
\* other XML-RPC server.
EndpointStates == {"down", "freecad", "other"}

\* The methods FreeCADConnection forwards to self.server.
FacadeMethods ==
  {"ping", "create_document", "create_object", "create_sketch",
   "add_sketch_geometry", "add_sketch_constraint", "get_sketch_diagnostics",
   "get_sketch_info", "recompute_document", "pad", "pocket", "revolve",
   "fillet", "chamfer", "get_body_features", "edit_object", "delete_object",
   "insert_part_from_library", "execute_code", "get_active_screenshot",
   "get_objects", "get_object", "get_parts_list", "list_documents"}

\* register_instance(FreeCADRPC()): the methods of FreeCADRPC whose names
\* do not begin with an underscore.
RegisteredMethods ==
  {"ping", "create_document", "create_object", "edit_object",
   "delete_object", "create_sketch", "add_sketch_geometry",
   "add_sketch_constraint", "get_sketch_diagnostics", "recompute_document",
   "execute_code", "get_objects", "get_object", "insert_part_from_library",
   "list_documents", "get_parts_list", "get_active_screenshot"}

\* self.server.<m>(...) on a ServerProxy for host h: the value returned or
\* the exception raised.  "ok" and "err" are the two response envelopes;
\* "UnknownMethod" is the fault the dispatcher of the addon's endpoint
\* answers a name it has no method for.
RemoteCall(h, m) ==
  CASE endpoint[h] = "down" -> {"OSError"}
    [] endpoint[h] = "other" -> IF m = "ping" THEN {"False"} ELSE {"Fault"}
    [] endpoint[h] = "freecad" ->
         IF m \notin RegisteredMethods THEN {"UnknownMethod"}
         ELSE IF m = "ping" THEN {"True"}
         ELSE IF m = "list_documents" THEN {"ok", "Fault"}
         ELSE {"ok", "err", "Fault"}

\* get_freecad_connection(): the connection it returns (or the exception
\* it raises) and the cache it leaves.  The cache is assigned before the
\* ping and reset only when the ping returns a false value.
Connected(conn, cache) == [conn |-> conn, raised |-> None, cache |-> cache]
ConnectRaised(e, cache) == [conn |-> None, raised |-> e, cache |-> cache]

get_freecad_connection ==
  IF _freecad_connection = None
    THEN { IF p = "True" THEN Connected(_rpc_host, _rpc_host)
           ELSE IF p = "False" THEN ConnectRaised("Failed to connect", None)
           ELSE ConnectRaised(p, _rpc_host)
           : p \in RemoteCall(_rpc_host, "ping") }
    ELSE {Connected(_freecad_connection, _freecad_connection)}

\* Why a call failed, from what was raised.
CauseOf(e) ==
  CASE e = "OSError" -> "unreachable"
    [] e = "Failed to connect" -> "not_freecad"
    [] e = "Fault" -> "fault"
    [] e = "UnknownMethod" -> "unknown_method"

\* What a tool gave its caller.
\*   kind:   "text" or "image" content returned, or "raised"
\*   prefix: the fixed part of the text (the exception, when raised)
\*   detail: what follows the prefix
\*   cause:  what happened underneath
ToolOut(tool, kind, prefix, detail, cause) ==
  [tool |-> tool, kind |-> kind, prefix |-> prefix, detail |-> detail,
   cause |-> cause]
NoToolOut == ToolOut(None, None, None, None, None)
Raised(tool, e) == ToolOut(tool, "raised", e, None, CauseOf(e))

\* object_tools.create_document, and with it every tool of the same build:
\* get_freecad_connection() first, then the remote call inside try/except.
create_document(c) ==
  IF c.raised # None
    THEN {Raised("create_document", c.raised)}
    ELSE { CASE r = "ok" ->
                  ToolOut("create_document", "text", "Document '", 
                          "' created successfully", "ok")
             [] r = "err" ->
                  ToolOut("create_document", "text",
                          "Failed to create document: ", "error", "op_error")
             [] OTHER ->
                  ToolOut("create_document", "text",
                          "Failed to create document: ", r, CauseOf(r))
           : r \in RemoteCall(c.conn, "create_document") }

\* object_tools.list_documents: no try/except at all.
ToolListDocuments(c) ==
  IF c.raised # None
    THEN {Raised("list_documents", c.raised)}
    ELSE { IF r = "ok"
             THEN ToolOut("list_documents", "text", "json", None, "ok")
             ELSE Raised("list_documents", r)
           : r \in RemoteCall(c.conn, "list_documents") }

\* FreeCADConnection.get_active_screenshot: execute_code asks whether the
\* view can render, then the screenshot is fetched; every exception and an
\* unsupported view give None.
get_active_screenshot(h) ==
  UNION { IF probe = "ok"
            THEN { IF shot = "ok" THEN [data |-> "base64", cause |-> "ok"]
                   ELSE IF shot = "err"
                     THEN [data |-> None, cause |-> "no_view"]
                     ELSE [data |-> None, cause |-> CauseOf(shot)]
                   : shot \in RemoteCall(h, "get_active_screenshot") }
          ELSE IF probe = "err"
            THEN {[data |-> None, cause |-> "no_view"]}
            ELSE {[data |-> None, cause |-> CauseOf(probe)]}
          : probe \in RemoteCall(h, "execute_code") }

\* misc_tools.get_view: no try/except of its own.
get_view(c) ==
  IF c.raised # None
    THEN {Raised("get_view", c.raised)}
    ELSE { IF sc.data # None
             THEN ToolOut("get_view", "image", "image/png", None, sc.cause)
             ELSE ToolOut("get_view", "text", "Cannot get screenshot",
                          None, sc.cause)
           : sc \in get_active_screenshot(c.conn) }

\* The tools of partdesign_tools and sketch_tools.get_sketch_info: each
\* forwards to the facade method of its own name inside try/except.
FeatureTools ==
  {"pad", "pocket", "revolve", "fillet", "chamfer", "get_body_features",
   "get_sketch_info"}

feature_tool(t, c) ==
  IF c.raised # None
    THEN {Raised(t, c.raised)}
    ELSE { CASE r = "ok" -> ToolOut(t, "text", "json", None, "ok")
             [] r = "err" -> ToolOut(t, "text", "Failed to ", "error",
                                     "op_error")
             [] OTHER -> ToolOut(t, "text", "Failed to ", r, CauseOf(r))
           : r \in RemoteCall(c.conn, t) }

ToolNames ==
  {"create_document", "list_documents", "get_view"} \cup FeatureTools

RunTool(t, c) ==
  CASE t = "create_document" -> create_document(c)
    [] t = "list_documents" -> ToolListDocuments(c)
    [] t = "get_view" -> get_view(c)
    [] t \in FeatureTools -> feature_tool(t, c)

\* An MCP client calls tool t.
ToolCall(t) ==
  /\ \E c \in get_freecad_connection :
       /\ _freecad_connection' = c.cache
       /\ \E out \in RunTool(t, c) : tool_out' = out
  /\ UNCHANGED << _rpc_host, endpoint >>
  /\ UNCHANGED nonClientVars

\* server_lifespan: a first get_freecad_connection() whose failure is only
\* logged.
Lifespan ==
  /\ \E c \in get_freecad_connection : _freecad_connection' = c.cache
  /\ tool_out' = NoToolOut
  /\ UNCHANGED << _rpc_host, endpoint >>
  /\ UNCHANGED nonClientVars

\* set_rpc_host(host)
set_rpc_host(host) ==
  /\ IF _rpc_host # host
       THEN /\ _rpc_host' = host
            /\ _freecad_connection' = None
       ELSE UNCHANGED << _rpc_host, _freecad_connection >>
  /\ tool_out' = NoToolOut
  /\ UNCHANGED endpoint
  /\ UNCHANGED nonClientVars

\* reset_freecad_connection()
reset_freecad_connection ==
  /\ _freecad_connection' = None
  /\ tool_out' = NoToolOut
  /\ UNCHANGED << _rpc_host, endpoint >>
  /\ UNCHANGED nonClientVars

\* FreeCAD is started or closed on host h, or something else takes the port.
EndpointChange(h, st) ==
  /\ endpoint[h] # st
  /\ endpoint' = [endpoint EXCEPT ![h] = st]
  /\ tool_out' = NoToolOut
  /\ UNCHANGED << _rpc_host, _freecad_connection >>
  /\ UNCHANGED nonClientVars

----------------------------------------------------------------------------
\* The allow-list: validation on its own, and the toolbar command

IpRun(input, res, done) ==
  [input |-> input, valid |-> res.valid, errors |-> res.errors,
   done |-> done]
NoIpRun == IpRun(<< >>, IpResult(<< >>, << >>), FALSE)

\* validate_allowed_ips is applied to the string at hand.
ValidateAllowedIps ==
  /\ ~ip_run.done
  /\ ip_run' = IpRun(ip_run.input, validate_allowed_ips(ip_run.input), TRUE)
  /\ UNCHANGED allowed_ips
  /\ UNCHANGED nonAccessVars

\* What the user types into the dialog of Configure Allowed IPs.
DialogTexts ==
  { << "10.0.0.0/8" >>,
    << " ", "127.0.0.1", ",", "10.0.0.0/8" >>,
    << "not-an-ip", ",", "10.0.0.0/8" >>,
    << "not-an-ip" >>,
    << "127.0.0.1", ",", ",", "10.0.0.0/8" >>,
    << " " >> }

\* ConfigureAllowedIPsCommand.Activated: the dialog gives text and ok; the
\* valid entries, if there are any, are joined and saved (saved: whether
\* save_settings could write the file).
ConfigureAllowedIPs(text, ok, saved) ==
  /\ gui = "idle"
  /\ IF ok /\ Strip(text) # << >>
       THEN LET valid == validate_allowed_ips(Strip(text)).valid IN
            IF valid = << >>
              THEN UNCHANGED allowed_ips
              ELSE allowed_ips' = IF saved THEN Join(valid) ELSE allowed_ips
       ELSE UNCHANGED allowed_ips
  /\ UNCHANGED ip_run
  /\ UNCHANGED nonAccessVars

AccessInit ==
  /\ ip_run = NoIpRun
  /\ allowed_ips = << "127.0.0.1" >>

----------------------------------------------------------------------------

\* The MCP server process before main(): nothing cached, the default host.
ClientInit ==
  /\ _rpc_host = "localhost"
  /\ _freecad_connection = None
  /\ tool_out = NoToolOut

\* The addon as loaded, whatever documents are open.
ServerLoaded ==
  /\ gui = "idle"
  /\ pumpTimers = 0
  /\ initTimer = 1
  /\ rpc_request_queue = << >>
  /\ rpc_response_queue = << >>
  /\ rpc_server_instance = None
  /\ rpc_server_thread = None
  /\ servers = {}
  /\ threads = {}
  /\ shutdownReq = {}
  /\ nStarts = 0
  /\ settings \in SettingsRecords
  /\ calls = [c \in CallIds |-> IdleCall]
  /\ nPut = 0
  /\ nTake = 0
  /\ executed = {}
  /\ act = NoAct
  /\ ev = NoEvent

\* FreeCAD just started: no document is open.
ServerInit ==
  /\ ServerLoaded
  /\ docs = {}
  /\ objs = {}

\* The addon on its own: nothing listens anywhere else, no tool is called.
Init ==
  /\ ServerInit
  /\ ClientInit
  /\ endpoint = [h \in Hosts |-> "down"]
  /\ prop_run = NoPropRun
  /\ DiskInit
  /\ AccessInit
  /\ file = NoFile

Next ==
  \/ PumpActivate
  \/ PumpCheck
  \/ PumpRun
  \/ \E c \in CallIds : Arrive(c)
  \/ \E c \in CallIds, s \in ServerIds, r \in Requests : Accept(c, s, r)
  \/ \E c \in CallIds : HandleDirect(c)
  \/ \E c \in CallIds : BridgePut(c)
  \/ \E c \in CallIds : BridgeTake(c)
  \/ \E s \in ServerIds : ServeExit(s)
  \/ Start
  \/ Stop
  \/ StopFinish
  \/ Toggle
  \/ ToggleRemote
  \/ \E auto, remote \in BOOLEAN : StartupAccept(auto, remote)
  \/ InitGui

Spec == Init /\ [][Next]_vars

\* The MCP server process on its own, against every state of the network.
ClientSpecInit ==
  /\ ServerInit
  /\ settings = _DEFAULT_SETTINGS
  /\ ClientInit
  /\ endpoint \in [Hosts -> EndpointStates]
  /\ prop_run = NoPropRun
  /\ DiskInit
  /\ AccessInit
  /\ file = NoFile

ClientNext ==
  \/ \E t \in ToolNames : ToolCall(t)
  \/ Lifespan
  \/ \E h \in Hosts : set_rpc_host(h)
  \/ reset_freecad_connection
  \/ \E h \in Hosts, st \in EndpointStates : EndpointChange(h, st)

ClientSpec == ClientSpecInit /\ [][ClientNext]_vars

\* The property batches on their own, for every batch.
PropNext ==
  \/ \E type \in ObjectTypes, props \in Batches :
       CreateObjectProps(type, props)
  \/ \E hasRefs \in BOOLEAN, props \in Batches :
       EditObjectProps(hasRefs, props)

\* Settings persistence on its own, from every file.
DiskSpecInit ==
  /\ ServerInit
  /\ settings = _DEFAULT_SETTINGS
  /\ ClientInit
  /\ endpoint = [h \in Hosts |-> "down"]
  /\ prop_run = NoPropRun
  /\ DiskInit
  /\ AccessInit
  /\ file \in InitialFiles

DiskNext ==
  \/ LoadSettings
  \/ \E d \in ValidRecords : \E w \in WriteOutcomes(d) : SaveSettings(d, w)
  \/ ToggleRemoteActivated

DiskSpec == DiskSpecInit /\ [][DiskNext]_vars

PropInit ==
  /\ Init
  /\ settings = _DEFAULT_SETTINGS

PropSpec == PropInit /\ [][PropNext]_vars

\* validate_allowed_ips on its own, for every string.
IpInit ==
  /\ ServerInit
  /\ settings = _DEFAULT_SETTINGS
  /\ ClientInit
  /\ endpoint = [h \in Hosts |-> "down"]
  /\ prop_run = NoPropRun
  /\ DiskInit
  /\ file = NoFile
  /\ \E s \in Inputs : ip_run = IpRun(s, IpResult(<< >>, << >>), FALSE)
  /\ allowed_ips = << "127.0.0.1" >>

IpNext == ValidateAllowedIps

IpSpec == IpInit /\ [][IpNext]_vars

\* The endpoint's lifecycle and the settings commands, with no client.
AccessSpecInit ==
  /\ Init
  /\ calls = [c \in CallIds |-> IdleCall]

AccessNext ==
  \/ Start
  \/ Stop
  \/ StopFinish
  \/ \E s \in ServerIds : ServeExit(s)
  \/ ToggleRemote
  \/ \E text \in DialogTexts, ok, saved \in BOOLEAN :
       ConfigureAllowedIPs(text, ok, saved)

AccessSpec == AccessSpecInit /\ [][AccessNext]_vars

\* The creating operations on their own, on every document.
FeatureInit ==
  /\ ServerLoaded
  /\ docs \in {{}, {DocName}}
  /\ objs \in SUBSET {BodyName, SketchName, AxisName}
  /\ docs = {} => objs = {}
  /\ settings = _DEFAULT_SETTINGS
  /\ ClientInit
  /\ endpoint = [h \in Hosts |-> "down"]
  /\ prop_run = NoPropRun
  /\ DiskInit
  /\ AccessInit
  /\ file = NoFile

FeatureNext ==
  \E op \in CreatingOps, axis_object \in {None, AxisName} :
    RunFeature(op, axis_object)

FeatureSpec == FeatureInit /\ [][FeatureNext]_vars

\* The steps of the program's own threads are taken when they can be: the
\* Qt event loop runs due timers and returns from finished calls, and the
\* serving thread runs.  Clients and the user are under no obligation.
Fairness ==
  /\ WF_vars(PumpActivate)
  /\ WF_vars(PumpCheck)
  /\ WF_vars(PumpRun)
  /\ WF_vars(StopFinish)
  /\ \A s \in ServerIds : WF_vars(ServeExit(s))
  /\ \A c \in CallIds : /\ WF_vars(HandleDirect(c))
                        /\ WF_vars(BridgePut(c))
                        /\ WF_vars(BridgeTake(c))

FairSpec == Spec /\ Fairness

----------------------------------------------------------------------------
\* Properties

IsPrefix(s, t) ==
  /\ Len(s) <= Len(t)
  /\ \A i \in 1 .. Len(s) : s[i] = t[i]

\* The Work Items an ended activation ran, and those among them that
\* returned a value other than None.
DrainedItems(e) == [i \in DOMAIN e.drained |-> e.drained[i].item]
Returned(e) ==
  LET kept == SelectSeq(e.drained, LAMBDA d : d.val \notin {None, "raise"})
  IN [i \in DOMAIN kept |-> kept[i].item]

\* C1: bridge calls follow one another without overlap on every run (C2),
\* and the n-th of them to take from the result queue takes the value
\* produced by the n-th Work Item put on the request queue.
C1_NthCallTakesNthResult ==
  ev.take.nth # 0 => ev.take.item = ev.take.nth

C1_Witness ==
  /\ ev.take.nth = 2
  /\ ev.take.item = 2
  /\ nStarts = 1

\* C2: at every moment at most one bridge call is between its put on the
\* request queue and its take from the result queue.
C2_OneCallInFlight == Cardinality(InFlight) <= 1

C2_Witness ==
  /\ InFlight # {}
  /\ \E c \in CallIds : calls[c].pc = "arrived"

\* C3: every access to the kernel is made by the pump on the GUI thread,
\* none by the transport's serving thread.
C3_KernelOnlyFromGuiThread == ev.kernel.thread \in {None, "gui"}

\* C4: a Work Item never raises into the pump: whenever the pump has run
\* one, the item returned a value and the activation goes on to its loop
\* test, and so to the line that schedules the next activation.
C4_WorkItemNeverRaises ==
  ev.exec.item # 0 => /\ ev.exec.val # "raise"
                      /\ gui = "pump_check"

\* C5: an operation naming a document or object that does not exist is
\* answered with a failure envelope whose error is a string; nothing is
\* raised out of the Work Item or out of the handler.
C5_NotFoundIsStringError ==
  /\ ev.exec.cause = "notfound" => ev.exec.val = "str"
  /\ ev.reply.cause = "notfound" =>
       ev.reply.reply = Envelope(FALSE, None, "str")

\* C6 as claimed: an activation that found K Work Items queued removes and
\* runs exactly those K, and puts exactly their non-None results, in order.
C6_DrainsExactlyWhatItFound ==
  ev.ended.how # None =>
    /\ DrainedItems(ev.ended) = ev.ended.snap
    /\ ev.ended.put = Returned(ev.ended)

\* C6 amended: an activation removes and runs Work Items in arrival order,
\* beginning with the K it found queued and going on with those put while
\* it runs, until it finds the queue empty or a Work Item raises; it puts
\* exactly the non-None results of the items it ran, in that order.
C6_DrainsUntilEmpty ==
  ev.ended.how # None =>
    LET ran == DrainedItems(ev.ended) IN
    /\ ev.ended.how = "rescheduled" => IsPrefix(ev.ended.snap, ran)
    /\ ev.ended.how = "raised" =>
         /\ ran # << >>
         /\ ev.ended.drained[Len(ran)].val = "raise"
         /\ IsPrefix(ev.ended.snap, ran) \/ IsPrefix(ran, ev.ended.snap)
    /\ \A i \in 1 .. Len(ran) - 1 : ran[i] < ran[i + 1]
    /\ ev.ended.put = Returned(ev.ended)

C6_Witness ==
  /\ ev.ended.how = "rescheduled"
  /\ Len(ev.ended.snap) = 1
  /\ Len(ev.ended.drained) = 2
  /\ Len(ev.ended.put) = 2

\* C7: a Work Item is executed at most once, by the pump on the GUI thread,
\* also when several pump timers have been scheduled.
C7_ExecutedOnceByPump ==
  ev.exec.item # 0 => /\ ev.exec.run = 1
                      /\ ev.exec.thread = "gui"

C7_Witness ==
  /\ ev.exec.run = 1
  /\ gui = "pump_check"
  /\ pumpTimers >= 1

\* C8: a stop command issued while the server runs completes: the GUI
\* thread leaves stop_rpc_server and the lifecycle state is Stopped.
C8_StopCompletes ==
  (gui = "stop_wait") ~> (gui = "idle" /\ rpc_server_instance = None)

\* C9: the pump's get() never waits: whenever the pump is at its get(), an
\* item is in the request queue.
C9_PumpGetNeverWaits ==
  gui = "pump_get" => rpc_request_queue # << >>

C9_Witness ==
  /\ gui = "pump_get"
  /\ Len(rpc_request_queue) = 1
  /\ act.drained # << >>

\* C10: at most one transport endpoint and at most one serving thread exist.
C10_OneEndpointOneThread ==
  /\ Cardinality(servers) <= 1
  /\ Cardinality(threads) <= 1

C10_Witness ==
  /\ nStarts = 2
  /\ Cardinality(servers) = 1
  /\ Cardinality(threads) = 1
  /\ initTimer = 0

\* C11: a call of start_rpc_server while a server is running returns the
\* "already running" message and changes nothing: no endpoint is bound, no
\* thread is started, no pump timer is scheduled.
C11_StartWhileRunningIsNoOp ==
  [][(Start /\ rpc_server_instance # None) =>
       /\ ev'.msg = "RPC Server already running."
       /\ UNCHANGED << rpc_server_instance, rpc_server_thread, servers,
                       threads, nStarts, pumpTimers, settings >>]_vars

C11_Witness ==
  /\ ev.msg = "RPC Server already running."
  /\ Cardinality(servers) = 1
  /\ Cardinality(threads) = 1

\* C12: a call of stop_rpc_server while no server is running returns the
\* "not running" message at once and the lifecycle state stays Stopped.
C12_StopWhileStoppedIsNoOp ==
  [][(Stop /\ rpc_server_instance = None) =>
       /\ ev'.msg = "RPC Server was not running."
       /\ gui' = "idle"
       /\ rpc_server_instance' = None
       /\ UNCHANGED << rpc_server_thread, servers, threads, shutdownReq >>]_vars

C12_Witness ==
  /\ ev.msg = "RPC Server was not running."
  /\ rpc_server_instance = None
  /\ nStarts >= 1

\* The queue-bridged methods that answer with a response envelope.
EnvelopeMethods == TrueMethods \cup DictMethods \cup {"execute_code"}

\* C13 as claimed: a queue-bridged method replies success=true with
\* error=null when its Work Item returned True (a dict for a sketch
\* operation), and otherwise success=false with data=null and error set to
\* the value the Work Item returned.
C13_TwoShapesByReturnedValue ==
  ev.reply.m \in EnvelopeMethods =>
    IF ev.reply.val \in {"True", "dict"}
      THEN ev.reply.reply = Envelope(TRUE, ev.reply.reply.data, None)
      ELSE ev.reply.reply = Envelope(FALSE, None, ev.reply.val)

\* C13 amended: a queue-bridged method replies with one of two shapes,
\* success=true with error=null or success=false with data=null and a
\* non-null error.  The first is the answer when the Work Item returned True
\* (a dict for a sketch operation), and the error is then the returned
\* value; execute_code, whose Work Item returns a triple (success, output,
\* error), answers by the triple's first member with the third as error.
C13_TwoShapes ==
  ev.reply.m \in EnvelopeMethods =>
    LET r == ev.reply.reply
        ok == r = Envelope(TRUE, r.data, None)
        failed == r = Envelope(FALSE, None, r.error) /\ r.error # None
    IN
    /\ ok \/ failed
    /\ ev.reply.m \in TrueMethods =>
         IF ev.reply.val = "True" THEN ok
                                  ELSE failed /\ r.error = ev.reply.val
    /\ ev.reply.m \in DictMethods =>
         IF ev.reply.val = "dict" THEN ok
                                  ELSE failed /\ r.error = ev.reply.val
    /\ ev.reply.m = "execute_code" =>
         IF ev.reply.val = "tuple_ok" THEN ok
                                      ELSE failed /\ r.error = "str"

C13_Witness ==
  /\ ev.reply.m = "execute_code"
  /\ ev.reply.val = "tuple_err"
  /\ ev.reply.reply = Envelope(FALSE, None, "str")

\* The shape of a tool's answer: what kind of content and which fixed text.
Shape(o) == [kind |-> o.kind, prefix |-> o.prefix]

\* The shapes a tool uses when the remote operation itself failed.
OperationFailureShapes ==
  {[kind |-> "text", prefix |-> "Failed to create document: "]}

\* C14: when the FreeCAD endpoint cannot be reached, what the tool gives its
\* caller does not have the shape used for a failed operation.
C14_UnreachableIsDistinguished ==
  tool_out.cause = "unreachable" =>
    Shape(tool_out) \notin OperationFailureShapes

\* C15: a tool call returns content to its caller and never raises, whatever
\* the connection and the remote operation do.
C15_ToolNeverRaises ==
  tool_out.tool # None => tool_out.kind \in {"text", "image"}

\* The names of the properties of a batch, and of those that fail.
NamesOf(props) == {props[i].name : i \in DOMAIN props}
FailingOf(props) == {props[i].name : i \in {j \in DOMAIN props : props[j].fails}}

\* C16: whatever property of the batch fails to be assigned, the operation
\* returns success, the failures are logged, and every other property of
\* the batch is assigned.
C16_FailedPropertySkipped ==
  prop_run.op # None =>
    /\ prop_run.result = "True"
    /\ prop_run.logged = FailingOf(prop_run.props)
    /\ prop_run.assigned = NamesOf(prop_run.props) \ FailingOf(prop_run.props)

\* C17: after a save, whether its write went to its end or not, the file
\* holds what it held before or the complete new record.
C17_SaveIsAtomic ==
  settings_out.record # << >> =>
    \/ file = settings_out.before
    \/ file = Dump(settings_out.record)

\* The record load_settings is to return for a file that stores dict d.
Completed(d) ==
  [k \in Keys |-> IF k \in DOMAIN d THEN d[k] ELSE DefaultItems[k]]

\* C18: loading a file that stores some of the keys returns a record with
\* the stored value of every stored key and the default of every other, and
\* leaves the file as it was.
C18_LoadFillsMissingKeys ==
  \A d \in Dicts :
    (settings_out.op = "load" /\ settings_out.before = Dump(d)) =>
      /\ settings_out.result = Parsed("dict", Completed(d), {})
      /\ file = Dump(d)

C18_Witness ==
  /\ settings_out.op = "load"
  /\ settings_out.before = Dump("remote_enabled" :> "True")
  /\ settings_out.result.value["remote_enabled"] = "True"
  /\ settings_out.result.value["allowed_ips"] = "127.0.0.1"
  /\ file = settings_out.before

\* C19: a load that follows a save of a valid record, the write having gone
\* to its end, returns a record equal to the one saved.
C19_SaveLoadRoundTrip ==
  (settings_out.op = "load" /\ lastSaved # << >>) =>
    settings_out.result = Parsed("dict", lastSaved, {})

C19_Witness ==
  /\ settings_out.op = "load"
  /\ lastSaved \in ValidRecords
  /\ lastSaved["allowed_ips"] = "10.0.0.5"
  /\ lastSaved["remote_enabled"] = "True"
  /\ settings_out.result.value = lastSaved

\* C20: a load of a file that is missing, unreadable or not a JSON mapping
\* returns the defaults, and no settings operation or command ends with an
\* exception.
C20_SettingsFailuresContained ==
  /\ ( /\ settings_out.op = "load"
       /\ \/ settings_out.before.kind # "text"
          \/ Parse(settings_out.before).type # "dict" ) =>
       settings_out.result = Defaults
  /\ settings_out.raised = None

\* How a string fails to be a comma-separated list: it opens with a comma,
\* closes with one, has two commas with no word between them, or has two
\* words with whitespace and no comma between them.
Blanks(s, i, j) == \A k \in (i + 1) .. (j - 1) : s[k] = " "
LeadingComma(s) == \E i \in DOMAIN s : s[i] = "," /\ Blanks(s, 0, i)
TrailingComma(s) ==
  \E i \in DOMAIN s : s[i] = "," /\ Blanks(s, i, Len(s) + 1)
DoubledComma(s) ==
  \E i, j \in DOMAIN s : i < j /\ s[i] = "," /\ s[j] = "," /\ Blanks(s, i, j)
MissingComma(s) ==
  \E i, j \in DOMAIN s :
    i + 1 < j /\ s[i] \in Words /\ s[j] \in Words /\ Blanks(s, i, j)
MalformedList(s) ==
  LeadingComma(s) \/ TrailingComma(s) \/ DoubledComma(s) \/ MissingComma(s)
WellFormedList(s) ==
  /\ \E i \in DOMAIN s : s[i] \in Words
  /\ ~MalformedList(s)

\* C21: a string that is not a well-formed comma-separated list (leading,
\* trailing or doubled comma, or words separated by whitespace alone) gets
\* an empty valid list and exactly one error, the malformed-list one; no
\* entry of it is examined.
C21_MalformedListRejectedWhole ==
  ip_run.done /\ MalformedList(ip_run.input) =>
    /\ ip_run.valid = << >>
    /\ ip_run.errors = << IpError("Malformed list", << >>) >>

C21_Witness ==
  /\ ip_run.done
  /\ DoubledComma(ip_run.input)
  /\ \E i \in DOMAIN ip_run.input : ip_run.input[i] = "127.0.0.1"
  /\ ip_run.valid = << >>
  /\ ip_run.errors = << IpError("Malformed list", << >>) >>

\* The entries of a well-formed list: its maximal runs of words, in order.
RECURSIVE EntriesOf(_, _, _)
EntriesOf(s, cur, acc) ==
  LET closed == IF cur = << >> THEN acc ELSE Append(acc, cur) IN
  IF s = << >> THEN closed
  ELSE IF Head(s) \in Words THEN EntriesOf(Tail(s), Append(cur, Head(s)), acc)
  ELSE EntriesOf(Tail(s), << >>, closed)

Networks == {<< "127.0.0.1" >>, << "10.0.0.0/8" >>}

\* C22: for a well-formed list the valid list is exactly the entries that
\* are addresses or subnets, trimmed and in input order, the errors are one
\* invalid-entry error naming each other entry, and the two lengths add up
\* to the number of entries.
C22_WellFormedListSortedOut ==
  ip_run.done /\ WellFormedList(ip_run.input) =>
    LET es == EntriesOf(ip_run.input, << >>, << >>)
        bad == SelectSeq(es, LAMBDA e : e \notin Networks)
    IN
    /\ ip_run.valid = SelectSeq(es, LAMBDA e : e \in Networks)
    /\ ip_run.errors =
         [i \in DOMAIN bad |-> IpError("Invalid IP/subnet", bad[i])]
    /\ Len(ip_run.valid) + Len(ip_run.errors) = Len(es)

C22_Witness ==
  /\ ip_run.done
  /\ ip_run.input = << "not-an-ip", ",", " ", "10.0.0.0/8" >>
  /\ ip_run.valid = << << "10.0.0.0/8" >> >>
  /\ ip_run.errors = << IpError("Invalid IP/subnet", << "not-an-ip" >>) >>

\* C23: in a run where the pump goes on being activated and no Work Item
\* raises (each returns a value other than None), a bridge call that has
\* put its Work Item gets to take a result and return.
C23_PutCallReturns ==
  \A c \in CallIds :
    ([]<><<PumpActivate>>_vars /\ [](ev.exec.val # "raise")) =>
      ((calls[c].pc \in {"wait", "wait2"}) ~> (calls[c].pc = "done"))

C23_Witness ==
  /\ ev.take.nth = 2
  /\ ev.reply.m = "delete_object"
  /\ \A c \in CallIds : calls[c].pc = "done"

\* C24: an endpoint comes to listen on all interfaces only if the stored
\* remote_enabled is true when start_rpc_server runs, and on localhost
\* otherwise; the one _init_gui starts listens beyond localhost only if
\* startup_remote_enabled was true.
C24_BindHostFollowsSettings ==
  [][\A sv \in servers' \ servers :
       /\ sv.host = (IF settings'.remote_enabled THEN "0.0.0.0"
                                                 ELSE "localhost")
       /\ initTimer' # initTimer =>
            (sv.host # "localhost" => settings.startup_remote_enabled)]_vars

C24_Witness ==
  /\ \E sv \in servers : sv.host = "0.0.0.0"
  /\ initTimer = 0
  /\ nStarts = 1
  /\ ev.msg = "RPC Server started."
  /\ settings.startup_remote_enabled

\* The addresses endpoint sv accepts connections from.
AcceptedBy(sv) == {a \in ClientAddresses : verify_request(sv, a)}

\* C25: a step that changes remote_enabled or allowed_ips in the settings
\* while an endpoint runs leaves that endpoint's bind host and allow-list
\* as they were, and so the addresses it accepts; an endpoint keeps both
\* from its construction by start to its end by stop.
C25_RunningEndpointKeepsItsConfiguration ==
  [][/\ (rpc_server_instance # None
          /\ (settings' # settings \/ allowed_ips' # allowed_ips))
          => servers' = servers
     /\ \A sv \in servers :
          (\E nx \in servers' : nx.id = sv.id) =>
            /\ sv \in servers'
            /\ AcceptedBy(sv)' = AcceptedBy(sv)]_vars

C25_Witness ==
  \E sv \in servers :
    /\ sv.id = rpc_server_instance
    /\ sv.host # BindHost(settings)
    /\ sv._allowed_networks # _parse_allowed_ips(allowed_ips)
    /\ AcceptedBy(sv) = {"127.0.0.1"}
    /\ "10.1.2.3" \in ClientAddresses

\* C26: whatever the interleaving of requests, stops and starts, the value
\* a bridge call takes from the result queue, and so returns, is the
\* result of a Work Item that same call put.
C26_CallTakesItsOwnResult ==
  ev.take.nth # 0 =>
    /\ ev.take.item = ev.take.mine
    /\ ev.take.item \in executed

C26_Witness ==
  /\ nStarts = 2
  /\ ev.take.nth = 2
  /\ ev.take.item = ev.take.mine
  /\ ev.take.mine = 2

\* C27: after any sequence of starts and stops at most one activation of
\* the pump is scheduled.
C27_OnePumpActivationScheduled == pumpTimers <= 1

\* C28: the cached connection is set only by a call whose ping over it
\* succeeded, and a get_freecad_connection that fails (its ping returns
\* false or raises) leaves the cache empty, so that the next call pings
\* again.
C28_CachedConnectionWasPinged ==
  [][/\ (_freecad_connection' # None
          /\ _freecad_connection' # _freecad_connection)
          => "True" \in RemoteCall(_rpc_host, "ping")
     /\ (_freecad_connection = None
          /\ tool_out'.kind = "raised"
          /\ "True" \notin RemoteCall(_rpc_host, "ping"))
          => _freecad_connection' = None]_vars

\* C29: a run of create_sketch, pad, pocket, revolve, fillet or chamfer
\* that returns an error leaves the document's set of objects as it was.
C29_FailedCreationLeavesDocument ==
  [][(ev'.kernel.m \in CreatingOps /\ ev'.exec.val = "str")
       => objs' = objs]_vars

\* C30: every operation the facade forwards is a method the addon's
\* endpoint has registered, so that no call through the facade is answered
\* with an unknown-method fault.
C30_ForwardedMethodsAreRegistered ==
  /\ tool_out.cause # "unknown_method"
  /\ tool_out.tool \in FacadeMethods => tool_out.tool \in RegisteredMethods

====
